---- MODULE Spec2Model ----
(***************************************************************************)
(* Model of the Google Keep Takeout import parser (keep-parser.ts):        *)
(* parseGoogleKeepTakeout, isKeepHtmlFile, parseKeepHtmlNote,              *)
(* extractNoteFromJsonLd, extractNoteFromHtml and formatNoteContent.       *)
(*                                                                         *)
(* A JavaScript string is a sequence of one-character strings.  A value    *)
(* that a library hands to the code (the entries AdmZip enumerates, what   *)
(* the cheerio selectors return, what JSON.parse returns) is an input.     *)
(***************************************************************************)
EXTENDS Integers, Sequences, FiniteSets, TLC

VARIABLES
    zipValid,     \* whether `new AdmZip(zipBuffer)` accepts the buffer
    archive,      \* zip.getEntries(): the entries in enumeration order
    idx,          \* position of the for-of loop (next entry to visit)
    parsedNotes,  \* the parsedNotes array
    tried,        \* indices of the entries handed to parseKeepHtmlNote
    pc,           \* position of the scan, the call or the request handler
    html,         \* the document given to one parseKeepHtmlNote call
    result,       \* what that call returned (with the path that decided it)
    content,      \* the string formatNoteContent is applied to
    prev,         \* the string before the last formatNoteContent call
    calls,        \* number of formatNoteContent calls made so far
    req,          \* the request importKeepNotes handles (header, upload)
    resp,         \* ctx.status and the imported count of ctx.body
    cleaned,      \* the file paths cleanupFile has been called with
    disk,         \* the temporary upload files that exist
    fileBuffer,   \* the bytes of the upload: the entries stored, and how
                  \* many times the archive holds that run of entries
    userTable,    \* the rows of the users table
    noteTable,    \* the rows of the notes table, in insertion order
    clock,        \* what new Date() returns
    procs         \* the concurrent parseAndSaveNotes calls: position, locals

vars == <<zipValid, archive, idx, parsedNotes, tried, pc, html, result,
          content, prev, calls, req, resp, cleaned, disk, fileBuffer,
          userTable, noteTable, clock, procs>>

scanVars == <<zipValid, archive, idx, parsedNotes, tried>>
noteVars == <<html, result>>
fmtVars == <<content, prev, calls>>
httpVars == <<req, resp, cleaned, disk, fileBuffer>>
dbVars == <<userTable, noteTable, clock>>
svcVars == <<httpVars, dbVars, procs>>

\* the state of the controller and the service when they are not running
NoImport ==
    /\ req = <<>> /\ resp = <<>> /\ cleaned = <<>> /\ disk = {}
    /\ fileBuffer = <<>>
    /\ userTable = {} /\ noteTable = <<>> /\ clock = 0
    /\ procs = <<>>

-----------------------------------------------------------------------------
(* Bounds of the model *)

\* longest archive (number of entries) that is scanned
MaxEntries == 3
\* longest string formatNoteContent is applied to
MaxLen == 5
\* longest itemListElement array
MaxItems == 2

-----------------------------------------------------------------------------
(* JavaScript strings *)

SeqUpTo(S, n) == UNION {[1..k -> S] : k \in 0..n}

UpperCase == <<"A","B","C","D","E","F","G","H","I","J","K","L","M",
               "N","O","P","Q","R","S","T","U","V","W","X","Y","Z">>
LowerCase == <<"a","b","c","d","e","f","g","h","i","j","k","l","m",
               "n","o","p","q","r","s","t","u","v","w","x","y","z">>

\* the lower-case letter of every upper-case letter
LowerOf ==
    [c \in {UpperCase[i] : i \in 1..26} |->
        LowerCase[CHOOSE i \in 1..26 : UpperCase[i] = c]]

\* String.prototype.toLowerCase, one character
LowerChar(c) == IF c \in DOMAIN LowerOf THEN LowerOf[c] ELSE c

\* String.prototype.toLowerCase
toLowerCase(s) == [i \in 1..Len(s) |-> LowerChar(s[i])]

\* s.startsWith(t)
startsWith(s, t) == Len(t) <= Len(s) /\ SubSeq(s, 1, Len(t)) = t

\* s.endsWith(t)
endsWith(s, t) ==
    Len(t) <= Len(s) /\ SubSeq(s, Len(s) - Len(t) + 1, Len(s)) = t

\* s.includes(t): scan for the first position where t starts
RECURSIVE includes(_, _)
includes(s, t) ==
    IF Len(s) < Len(t) THEN FALSE
    ELSE IF startsWith(s, t) THEN TRUE
    ELSE includes(Tail(s), t)

\* the characters \s and trim() treat as white space (those the model uses)
IsWs(c) == c \in {" ", "\t", "\n", "\r"}

RECURSIVE trimStart(_)
trimStart(s) ==
    IF s = <<>> THEN <<>>
    ELSE IF IsWs(s[1]) THEN trimStart(Tail(s))
    ELSE s

RECURSIVE trimEnd(_)
trimEnd(s) ==
    IF s = <<>> THEN <<>>
    ELSE IF IsWs(s[Len(s)]) THEN trimEnd(SubSeq(s, 1, Len(s) - 1))
    ELSE s

\* String.prototype.trim
trim(s) == trimEnd(trimStart(s))

\* s.replace(/\s+/g, ' '): every maximal run of white space becomes one space
RECURSIVE CollapseWs(_)
CollapseWs(s) ==
    IF s = <<>> THEN <<>>
    ELSE IF IsWs(s[1]) THEN <<" ">> \o CollapseWs(trimStart(s))
    ELSE <<s[1]>> \o CollapseWs(Tail(s))

\* checklistItems.join('\n')
RECURSIVE join(_)
join(lines) ==
    IF lines = <<>> THEN <<>>
    ELSE IF Len(lines) = 1 THEN lines[1]
    ELSE lines[1] \o <<"\n">> \o join(Tail(lines))

-----------------------------------------------------------------------------
(* JSON values, as JSON.parse returns them *)

\* A scalar property value: k is "absent" (undefined), "null", "bool", "num",
\* "str" or "obj" (a nested object or array: truthy, and not a string)
Absent == [k |-> "absent", b |-> FALSE, n |-> 0, s |-> <<>>]
Null == [k |-> "null", b |-> FALSE, n |-> 0, s |-> <<>>]
Bool(x) == [k |-> "bool", b |-> x, n |-> 0, s |-> <<>>]
Num(x) == [k |-> "num", b |-> FALSE, n |-> x, s |-> <<>>]
Str(x) == [k |-> "str", b |-> FALSE, n |-> 0, s |-> x]
Obj == [k |-> "obj", b |-> FALSE, n |-> 0, s |-> <<>>]

\* JavaScript truthiness
Truthy(v) ==
    CASE v.k = "bool" -> v.b
      [] v.k = "num" -> v.n # 0
      [] v.k = "str" -> v.s # <<>>
      [] v.k = "obj" -> TRUE
      [] OTHER -> FALSE

\* a || b || ''
OrElse(a, b) == IF Truthy(a) THEN a ELSE IF Truthy(b) THEN b ELSE Str(<<>>)

Digits == <<"0","1","2","3","4","5","6","7","8","9">>

IsDigit(c) == \E i \in 1..10 : Digits[i] = c
DigitVal(c) == (CHOOSE i \in 1..10 : Digits[i] = c) - 1

\* decimal digits of a natural number
RECURSIVE NumToString(_)
NumToString(n) ==
    IF n < 10 THEN <<Digits[n + 1]>>
    ELSE NumToString(n \div 10) \o <<Digits[(n % 10) + 1]>>

\* string conversion in a template literal `${v}` of a truthy value or ''
TemplateString(v) ==
    CASE v.k = "str" -> v.s
      [] v.k = "num" -> NumToString(v.n)
      [] v.k = "bool" -> IF v.b THEN <<"t","r","u","e">>
                                ELSE <<"f","a","l","s","e">>
      [] v.k = "obj" -> <<"[","o","b","j","e","c","t"," ",
                          "O","b","j","e","c","t","]">>
      [] OTHER -> <<>>

\* new Date(v) followed by isNaN(parsed.getTime()): <<t>> for a valid date
\* with time value t, <<>> for an Invalid Date.  A string is a date when it
\* is a four-digit year (the ISO form the model uses); the time value is
\* kept as the year.  A number is its own time value and true is 1.
NewDate(v) ==
    CASE v.k = "str" ->
            IF Len(v.s) = 4 /\ \A i \in 1..4 : IsDigit(v.s[i])
            THEN <<1000 * DigitVal(v.s[1]) + 100 * DigitVal(v.s[2])
                   + 10 * DigitVal(v.s[3]) + DigitVal(v.s[4])>>
            ELSE <<>>
      [] v.k = "num" -> <<v.n>>
      [] v.k = "bool" -> IF v.b THEN <<1>> ELSE <<0>>
      [] OTHER -> <<>>

\* the two ballot-box characters, U+2611 and U+2610, each one character
BoxChecked == "U+2611"
BoxUnchecked == "U+2610"

\* A list item: t is "null", "prim" (a string or number: no properties) or
\* "obj" with the properties text, name and checked
NullItem == [t |-> "null", text |-> Absent, name |-> Absent, checked |-> Absent]
PrimItem == [t |-> "prim", text |-> Absent, name |-> Absent, checked |-> Absent]
Item(text, name, checked) ==
    [t |-> "obj", text |-> text, name |-> name, checked |-> checked]

\* itemListElement: k is "absent", "other" (present, truthy or not, but no
\* array) or "arr" with its items
NoList == [k |-> "absent", items |-> <<>>]
OtherList == [k |-> "other", items |-> <<>>]
List(items) == [k |-> "arr", items |-> items]

\* A JSON value at the top of the payload or as an array element: t is
\* "null", "bool", "num", "str", "arr" or "obj"; f holds the properties of
\* an object, elems the elements of an array
NoFields ==
    [name |-> Absent, headline |-> Absent, text |-> Absent,
     description |-> Absent, itemListElement |-> NoList,
     dateCreated |-> Absent, dateModified |-> Absent]
JNull == [t |-> "null", b |-> FALSE, n |-> 0, s |-> <<>>, f |-> NoFields, elems |-> <<>>]
JBool(x) == [JNull EXCEPT !.t = "bool", !.b = x]
JNum(x) == [JNull EXCEPT !.t = "num", !.n = x]
JStr(x) == [JNull EXCEPT !.t = "str", !.s = x]
JObj(f) == [JNull EXCEPT !.t = "obj", !.f = f]
JArr(elems) == [JNull EXCEPT !.t = "arr", !.elems = elems]

\* truthiness of a JSON value (arrays and objects are truthy)
JTruthy(v) ==
    CASE v.t = "bool" -> v.b
      [] v.t = "num" -> v.n # 0
      [] v.t = "str" -> v.s # <<>>
      [] v.t \in {"obj", "arr"} -> TRUE
      [] OTHER -> FALSE

\* data.<p>: a property of an object; undefined on anything else
Prop(data, p) ==
    IF data.t = "obj" THEN data.f[p]
    ELSE IF p = "itemListElement" THEN NoList ELSE Absent

-----------------------------------------------------------------------------
(* Notes *)

\* a ParsedNote (k = "note"), null (k = "none") or a thrown exception
\* (k = "throw"); createdAt is <<>> when undefined, else <<time value>>
Note(t, c, d) == [k |-> "note", title |-> t, content |-> c, createdAt |-> d]
NoNote == [k |-> "none", title |-> <<>>, content |-> <<>>, createdAt |-> <<>>]
Thrown == [k |-> "throw", title |-> <<>>, content |-> <<>>, createdAt |-> <<>>]

-----------------------------------------------------------------------------
(* extractNoteFromJsonLd *)

\* a slip: the two check boxes the wrong way round
RenderItem_swapped(item) ==
    LET itemText == OrElse(item.text, item.name)
        isChecked == item.checked.k = "bool" /\ item.checked.b
        checkbox == IF isChecked THEN BoxUnchecked ELSE BoxChecked
    IN  <<checkbox, " ">> \o TemplateString(itemText)

\* `${checkbox} ${itemText}` of one list item
RenderItem(item) ==
    LET itemText == OrElse(item.text, item.name)
        isChecked == item.checked.k = "bool" /\ item.checked.b
        checkbox == IF isChecked THEN BoxChecked ELSE BoxUnchecked
    IN  <<checkbox, " ">> \o TemplateString(itemText)

\* the checklistItems array after the loop over data.itemListElement
ChecklistItems(items) == [i \in 1..Len(items) |-> RenderItem(items[i])]

\* createdAt after the dateCreated / dateModified branches
RecoverCreatedAt(data) ==
    IF Truthy(Prop(data, "dateCreated"))
    THEN NewDate(Prop(data, "dateCreated"))
    ELSE IF Truthy(Prop(data, "dateModified"))
    THEN NewDate(Prop(data, "dateModified"))
    ELSE <<>>

\* a slip: the content is returned as it was extracted
TrimmedNote_rawContent(title, cont, createdAt) ==
    Note(trim(title), cont, createdAt)

\* the object of the return statement: { title: title.trim(),
\* content: content.trim(), createdAt }
TrimmedNote(title, cont, createdAt) == Note(trim(title), trim(cont), createdAt)

ExtractNoteFromJsonLd(data) ==
    LET title == OrElse(Prop(data, "name"), Prop(data, "headline"))
        list == Prop(data, "itemListElement")
        isList == list.k = "arr"
        \* reading item.text of a null item is a TypeError
        loopThrows == isList /\ \E i \in 1..Len(list.items) : list.items[i].t = "null"
        cont == IF isList
                THEN Str(join(ChecklistItems(list.items)))
                ELSE OrElse(Prop(data, "text"), Prop(data, "description"))
    IN  IF loopThrows THEN Thrown
        ELSE IF ~Truthy(cont) THEN NoNote
        \* content.trim is not a function on a number, true or an object
        ELSE IF cont.k # "str" THEN Thrown
        ELSE IF Len(trim(cont.s)) = 0 THEN NoNote
        \* title.trim is not a function either
        ELSE IF title.k # "str" THEN Thrown
        ELSE TrimmedNote(title.s, cont.s, RecoverCreatedAt(data))

-----------------------------------------------------------------------------
(* extractNoteFromHtml *)

\* A document as cheerio shows it to the code.  ld is what
\* $('script[type="application/ld+json"]').html() and JSON.parse make of
\* it: k is "absent" (null: no block), "empty" (''), "invalid" (JSON.parse
\* throws) or "json" with the value v.  titleTag is $('title').text(),
\* titleCls is $('.title').text(), hasContent is $('.content').length > 0,
\* contentDiv is $('.content').text() and body is $('body').text().
Doc(ld, titleTag, titleCls, hasContent, contentDiv, body) ==
    [ld |-> ld, titleTag |-> titleTag, titleCls |-> titleCls,
     hasContent |-> hasContent, contentDiv |-> contentDiv, body |-> body]

LdAbsent == [k |-> "absent", v |-> JNull]
LdEmpty == [k |-> "empty", v |-> JNull]
LdInvalid == [k |-> "invalid", v |-> JNull]
LdJson(v) == [k |-> "json", v |-> v]

\* a slip: the runs of white space are left as they are
NormalizeHtmlText_noCollapse(s) == trim(s)

\* content.replace(/\s+/g, ' ').trim()
NormalizeHtmlText(s) == trim(CollapseWs(s))

ExtractNoteFromHtml(doc) ==
    LET title == OrElse(Str(doc.titleTag), Str(doc.titleCls))
        raw == IF doc.hasContent THEN doc.contentDiv ELSE doc.body
        cont == NormalizeHtmlText(raw)
    IN  IF Len(cont) = 0 THEN NoNote
        ELSE TrimmedNote(title.s, cont, <<>>)

-----------------------------------------------------------------------------
(* parseKeepHtmlNote *)

\* jsonData after `if (Array.isArray(jsonData)) jsonData = jsonData[0]`;
\* the first element of an empty array is undefined, which is falsy like null
UnwrapArray(v) ==
    IF v.t = "arr" THEN (IF Len(v.elems) = 0 THEN JNull ELSE v.elems[1]) ELSE v

\* What the `if (jsonLdScript) { try { ... } catch { } }` block does:
\* "return" with the value of extractNoteFromJsonLd, or "fallthrough" to the
\* last line of the function; called tells whether extractNoteFromJsonLd ran
JsonLdBlock(doc) ==
    IF doc.ld.k \in {"absent", "empty"}
    THEN [k |-> "fallthrough", called |-> FALSE, note |-> NoNote]
    ELSE IF doc.ld.k = "invalid"
    THEN [k |-> "fallthrough", called |-> FALSE, note |-> NoNote]
    ELSE LET jsonData == UnwrapArray(doc.ld.v) IN
         IF ~JTruthy(jsonData)
         THEN [k |-> "fallthrough", called |-> FALSE, note |-> NoNote]
         ELSE LET r == ExtractNoteFromJsonLd(jsonData) IN
              IF r.k = "throw"
              THEN [k |-> "fallthrough", called |-> TRUE, note |-> NoNote]
              ELSE [k |-> "return", called |-> TRUE, note |-> r]

\* a slip: a null from extractNoteFromJsonLd is taken as a cue to try the
\* markup as well
ParseKeepHtmlNote_fallbackOnNull(doc) ==
    LET blk == JsonLdBlock(doc) IN
    IF blk.k = "return" /\ blk.note.k = "note"
    THEN [note |-> blk.note, by |-> "jsonld", ran |-> <<"jsonld">>]
    ELSE [note |-> ExtractNoteFromHtml(doc), by |-> "html",
          ran |-> (IF blk.called THEN <<"jsonld">> ELSE <<>>) \o <<"html">>]

\* The value parseKeepHtmlNote returns (note), the extraction function whose
\* return value it is (by) and the extraction functions it called (ran)
ParseKeepHtmlNote(doc) ==
    LET blk == JsonLdBlock(doc) IN
    IF blk.k = "return"
    THEN [note |-> blk.note, by |-> "jsonld", ran |-> <<"jsonld">>]
    ELSE [note |-> ExtractNoteFromHtml(doc), by |-> "html",
          ran |-> (IF blk.called THEN <<"jsonld">> ELSE <<>>) \o <<"html">>]

-----------------------------------------------------------------------------
(* Documents given to parseKeepHtmlNote *)

sT == <<"T">>
sPadT == <<" ", "T", " ">>
sHello == <<"H", "e", "l", "l", "o">>
sPadHi == <<" ", "H", "i", "\n">>
sBlank == <<" ", "\n">>
sHelloWorld == <<"H", "e", "l", "l", "o", " ", "w", "o", "r", "l", "d">>
sRawHelloWorld ==
    <<" ", " ", "H", "e", "l", "l", "o", " ", " ", " ",
      "w", "o", "r", "l", "d", " ", " ", "\n", "\n">>
s2020 == <<"2", "0", "2", "0">>
s2021 == <<"2", "0", "2", "1">>
sSoon == <<"s", "o", "o", "n">>

\* a document without markup text of its own except a body
BodyOnly(ld, body) == Doc(ld, <<>>, <<>>, FALSE, <<>>, body)

\* notes with text: every combination of these property values
NameVals == {Absent, Str(sT), Str(sPadT), Num(7)}
HeadlineVals == {Absent, Str(<<"H">>)}
TextVals == {Absent, Str(<<>>), Str(sBlank), Str(sHello), Str(sPadHi), Num(5)}
DescriptionVals == {Absent, Str(<<"D">>), Str(<<" ">>)}
DateCreatedVals == {Absent, Str(<<>>), Str(s2020), Str(sSoon), Num(3)}
DateModifiedVals == {Absent, Str(s2021), Str(sSoon)}

TextObjects ==
    {[NoFields EXCEPT !.name = nm, !.headline = hd, !.text = tx,
                      !.description = ds, !.dateCreated = dc,
                      !.dateModified = dm] :
        nm \in NameVals, hd \in HeadlineVals, tx \in TextVals,
        ds \in DescriptionVals, dc \in DateCreatedVals,
        dm \in DateModifiedVals}

\* checklists: every list of at most MaxItems of these items
ItemVals ==
    {Item(Str(<<"a">>), Absent, Bool(TRUE)),
     Item(Str(<<"b">>), Absent, Absent),
     Item(Absent, Str(<<"c">>), Bool(FALSE)),
     Item(Str(<<>>), Absent, Bool(TRUE)),
     Item(Str(<<"a", " ">>), Str(<<"n">>), Str(<<"t", "r", "u", "e">>)),
     Item(Str(<<"a", "\n", "b">>), Absent, Bool(FALSE)),
     Item(Num(5), Absent, Num(1)),
     PrimItem,
     NullItem}

ListObjects ==
    {[NoFields EXCEPT !.name = nm, !.text = tx, !.itemListElement = ls] :
        nm \in {Absent, Str(sT)}, tx \in {Absent, Str(sHello)},
        ls \in {OtherList} \cup {List(is) : is \in SeqUpTo(ItemVals, MaxItems)}}

\* a note as the export writes it, one without content, two whose
\* properties are no strings
GoodObject == [NoFields EXCEPT !.name = Str(sT), !.text = Str(sHello)]
EmptyObject == [NoFields EXCEPT !.name = Str(sT), !.text = Str(<<>>)]
NumTextObject == [NoFields EXCEPT !.text = Num(5)]
NumNameObject == [NoFields EXCEPT !.name = Num(7), !.text = Str(sHello)]

\* what the script element can hold
Payloads ==
    {LdAbsent, LdEmpty, LdInvalid} \cup
    {LdJson(v) : v \in
        {JNull, JBool(FALSE), JBool(TRUE), JNum(0), JNum(5), JStr(<<>>),
         JStr(<<"x">>), JArr(<<>>), JArr(<<JNull>>),
         JArr(<<JObj(GoodObject), JObj(EmptyObject)>>),
         JArr(<<JArr(<<>>)>>), JObj(NoFields), JObj(GoodObject),
         JObj(EmptyObject), JObj(NumTextObject), JObj(NumNameObject)}}

\* every payload in every markup
MarkupDocs ==
    {Doc(ld, tt, tc, hc, IF hc THEN cd ELSE <<>>, bd) :
        ld \in Payloads, tt \in {<<>>, <<" ", "M", "y", " ">>},
        tc \in {<<>>, <<"C">>}, hc \in BOOLEAN,
        cd \in {<<>>, sRawHelloWorld, sBlank},
        bd \in {<<>>, sRawHelloWorld, <<"x">>}}

Docs ==
    {BodyOnly(LdJson(JObj(f)), <<"B">>) : f \in TextObjects \cup ListObjects}
    \cup MarkupDocs

-----------------------------------------------------------------------------
(* One call of parseKeepHtmlNote *)

InitExtract ==
    /\ html \in Docs
    /\ result = <<>>
    /\ pc = "call"
    /\ zipValid = TRUE /\ archive = <<>> /\ idx = 1
    /\ parsedNotes = <<>> /\ tried = {}
    /\ content = <<>> /\ prev = <<>> /\ calls = 0
    /\ NoImport

ParseNote ==
    /\ pc = "call"
    /\ result' = ParseKeepHtmlNote(html)
    /\ pc' = "returned"
    /\ UNCHANGED <<html, scanVars, fmtVars, svcVars>>

NextExtract == ParseNote

SpecExtract == InitExtract /\ [][NextExtract]_vars

-----------------------------------------------------------------------------
(* Properties of one parseKeepHtmlNote call *)

Returned == pc = "returned"

\* the working object of the structured path
Data == UnwrapArray(html.ld.v)

\* the call emitted a note and extractNoteFromJsonLd produced it
StructuredNote ==
    Returned /\ result.by = "jsonld" /\ result.note.k = "note"

\* a property that is present and parses as a date
Parseable(v) == v.k # "absent" /\ NewDate(v) # <<>>

\* C5: for a note of the structured path createdAt is the parsed
\* dateCreated when that is present and parseable, else the parsed
\* dateModified when that is present and parseable, else unset.
C5_Precedence ==
    StructuredNote =>
        LET dc == Prop(Data, "dateCreated")
            dm == Prop(Data, "dateModified")
        IN  result.note.createdAt =
                IF Parseable(dc) THEN NewDate(dc)
                ELSE IF Parseable(dm) THEN NewDate(dm)
                ELSE <<>>

\* the lines of a string: the pieces between its newlines
RECURSIVE SplitLines(_)
SplitLines(s) ==
    IF \A i \in 1..Len(s) : s[i] # "\n" THEN <<s>>
    ELSE LET n == CHOOSE i \in 1..Len(s) :
                    s[i] = "\n" /\ \A j \in 1..(i - 1) : s[j] # "\n"
         IN  <<SubSeq(s, 1, n - 1)>> \o SplitLines(SubSeq(s, n + 1, Len(s)))

\* the payload is an object with an array itemListElement
IsChecklistDoc ==
    html.ld.k = "json" /\ html.ld.v.t = "obj"
    /\ html.ld.v.f.itemListElement.k = "arr"

\* the display text of an item: text, else name, else nothing
ItemText(item) ==
    IF Truthy(item.text) THEN TemplateString(item.text)
    ELSE IF Truthy(item.name) THEN TemplateString(item.name)
    ELSE <<>>

\* the line the documentation gives for an item
ItemLine(item) ==
    (IF item.checked = Bool(TRUE) THEN <<BoxChecked, " ">>
                                  ELSE <<BoxUnchecked, " ">>)
    \o ItemText(item)

ItemLines == [i \in 1..Len(html.ld.v.f.itemListElement.items) |->
                ItemLine(html.ld.v.f.itemListElement.items[i])]

\* C6 as stated: the content of the note emitted for a checklist of k
\* items is exactly the k lines, one per item, in item order.
C6_ExactLines ==
    (StructuredNote /\ IsChecklistDoc) =>
        SplitLines(result.note.content) = ItemLines

\* no text has a line break and the last line does not end in white space
PlainItems ==
    /\ ItemLines # <<>>
    /\ \A i \in 1..Len(ItemLines) :
          \A j \in 1..Len(ItemLines[i]) : ItemLines[i][j] # "\n"
    /\ ~IsWs(ItemLines[Len(ItemLines)][Len(ItemLines[Len(ItemLines)])])

\* C6 amended: the content of a note that extractNoteFromJsonLd returns
\* for a checklist is the trimmed newline-join of the k item lines; it shows
\* exactly the k lines when no text has a line break and the last text is
\* not empty and does not end in white space.
C6_TrimmedLines ==
    (StructuredNote /\ IsChecklistDoc) =>
        /\ result.note.content = trim(join(ItemLines))
        /\ PlainItems => SplitLines(result.note.content) = ItemLines

\* C6 witness: a two-item checklist, first item checked, came out as two lines
C6_Witness ==
    /\ StructuredNote /\ IsChecklistDoc
    /\ result.note.content =
          <<BoxChecked, " ", "a", "\n", BoxUnchecked, " ", "b">>

\* a text or description that is missing, empty or only white space
EmptyText(v) == v.k = "absent" \/ (v.k = "str" /\ trim(v.s) = <<>>)

\* the payload is an object without content and without itemListElement
IsEmptyObjectDoc ==
    /\ html.ld.k = "json" /\ html.ld.v.t = "obj"
    /\ EmptyText(html.ld.v.f.text) /\ EmptyText(html.ld.v.f.description)
    /\ html.ld.v.f.itemListElement.k = "absent"

\* C7: an object payload with empty text/description and no itemListElement
\* yields no note, and the markup fallback is not tried.
C7_NoFallbackOnEmpty ==
    (Returned /\ IsEmptyObjectDoc) =>
        /\ result.note.k = "none"
        /\ \A i \in 1..Len(result.ran) : result.ran[i] # "html"

\* C7 witness: such a document whose .content element has text
C7_Witness ==
    /\ Returned /\ IsEmptyObjectDoc
    /\ html.hasContent /\ html.contentDiv = sRawHelloWorld
    /\ html.body = sRawHelloWorld

\* C8: the fallback runs only without a block or when the payload is no
\* JSON; a payload that parses as JSON is decided by the structured path
\* alone.
C8_FallbackOnlyWithoutJson ==
    Returned =>
        /\ (\E i \in 1..Len(result.ran) : result.ran[i] = "html")
              => html.ld.k \in {"absent", "empty", "invalid"}
        /\ html.ld.k = "json"
              => (result.by = "jsonld" /\ result.ran = <<"jsonld">>)

\* the words of a string: its maximal runs of characters that are no white
\* space
RECURSIVE Words(_)
WordEnd(s) ==
    IF \A i \in 1..Len(s) : ~IsWs(s[i]) THEN Len(s)
    ELSE (CHOOSE i \in 1..Len(s) :
              IsWs(s[i]) /\ \A j \in 1..(i - 1) : ~IsWs(s[j])) - 1
Words(s) ==
    IF s = <<>> THEN <<>>
    ELSE IF IsWs(s[1]) THEN Words(Tail(s))
    ELSE <<SubSeq(s, 1, WordEnd(s))>>
         \o Words(SubSeq(s, WordEnd(s) + 1, Len(s)))

RECURSIVE SpaceJoin(_)
SpaceJoin(ws) ==
    IF ws = <<>> THEN <<>>
    ELSE IF Len(ws) = 1 THEN ws[1]
    ELSE ws[1] \o <<" ">> \o SpaceJoin(Tail(ws))

\* C9: without a structured-data block the content is the text of the
\* .content element if there is one, else of the body, its words separated
\* by single spaces; there is no note when no word is left, and createdAt
\* is never set.
C9_Fallback ==
    (Returned /\ html.ld.k = "absent") =>
        LET text == IF html.hasContent THEN html.contentDiv ELSE html.body
            want == SpaceJoin(Words(text))
        IN  /\ result.by = "html"
            /\ want = <<>> => result.note.k = "none"
            /\ want # <<>> =>
                  /\ result.note.k = "note"
                  /\ result.note.content = want
                  /\ result.note.createdAt = <<>>
            /\ text = sRawHelloWorld => result.note.content = sHelloWorld

\* C9 witness: the body "  Hello   world  \n\n" of a document without block
\* and without .content element came out as "Hello world"
C9_Witness ==
    /\ Returned /\ html.ld.k = "absent" /\ ~html.hasContent
    /\ html.body = sRawHelloWorld
    /\ result.note.content = sHelloWorld

-----------------------------------------------------------------------------
(* parseGoogleKeepTakeout *)

\* a slip: the path is matched as it is spelled
isKeepHtmlFile_caseSensitive(entryName) ==
    /\ includes(entryName, <<"k", "e", "e", "p">>)
    /\ endsWith(entryName, <<".", "h", "t", "m", "l">>)
    /\ ~includes(entryName, <<"l", "a", "b", "e", "l">>)

isKeepHtmlFile(entryName) ==
    LET lowerName == toLowerCase(entryName) IN
    /\ includes(lowerName, <<"k", "e", "e", "p">>)
    /\ endsWith(lowerName, <<".", "h", "t", "m", "l">>)
    /\ ~includes(lowerName, <<"l", "a", "b", "e", "l">>)

\* a slip: the new note is put in front
push_front(notes, note) == <<note>> \o notes

\* parsedNotes.push(note)
push(notes, note) == Append(notes, note)

\* a slip: the handler gives up on the archive
CatchEntryError_rethrow == "threw"

\* where the catch block of the loop body leaves the scan: it logs a
\* warning and the loop goes on
CatchEntryError == "loop"

\* An archive entry: its entryName, whether entry.getData() returns (a
\* corrupt entry makes it throw) and the document its bytes decode to
Entry(entryName, readable, doc) ==
    [entryName |-> entryName, readable |-> readable, doc |-> doc]

PathPrefixes == {<<"K", "e", "e", "p", "/">>, <<"d", "o", "c", "s", "/">>}
PathMiddles == {<<"N", "o", "t", "e", "1">>,
                <<"L", "a", "b", "e", "l", "s", "/", "x">>}
PathSuffixes == {<<".", "H", "T", "M", "L">>, <<".", "j", "s", "o", "n">>}
Paths == {a \o b \o c : a \in PathPrefixes, b \in PathMiddles, c \in PathSuffixes}

NotePath == <<"K", "e", "e", "p", "/", "N", "o", "t", "e", "1", ".", "h", "t", "m", "l">>

GoodDoc == BodyOnly(LdJson(JObj(GoodObject)), <<"B">>)
PaddedDoc ==
    BodyOnly(LdJson(JObj([NoFields EXCEPT !.text = Str(sPadHi)])), <<"B">>)
EmptyDoc == BodyOnly(LdJson(JObj(EmptyObject)), <<"B">>)
MarkupDoc == BodyOnly(LdAbsent, sRawHelloWorld)

\* the entries archives are made of: the export's note under every path,
\* and under the path of a note every kind of document and a corrupt entry
Entries ==
    {Entry(p, TRUE, GoodDoc) : p \in Paths}
    \cup {Entry(NotePath, TRUE, d) :
            d \in {PaddedDoc, EmptyDoc, MarkupDoc}}
    \cup {Entry(NotePath, FALSE, GoodDoc)}

Init ==
    /\ \/ zipValid = TRUE /\ archive \in SeqUpTo(Entries, MaxEntries)
       \/ zipValid = FALSE /\ archive = <<>>
    /\ idx = 1
    /\ parsedNotes = <<>>
    /\ tried = {}
    /\ pc = "open"
    /\ html = <<>> /\ result = <<>>
    /\ content = <<>> /\ prev = <<>> /\ calls = 0
    /\ NoImport

\* new AdmZip(zipBuffer); zip.getEntries(): a buffer that is no archive
\* makes the constructor throw
OpenArchive ==
    /\ pc = "open"
    /\ pc' = IF zipValid THEN "loop" ELSE "threw"
    /\ UNCHANGED <<scanVars, noteVars, fmtVars, svcVars>>

\* one iteration of the loop over zipEntries
VisitEntry ==
    /\ pc = "loop"
    /\ idx <= Len(archive)
    /\ LET entry == archive[idx] IN
       IF isKeepHtmlFile(entry.entryName)
       THEN /\ tried' = tried \cup {idx}
            /\ IF entry.readable
               THEN LET note == ParseKeepHtmlNote(entry.doc).note IN
                    /\ parsedNotes' =
                          IF note.k = "note" /\ Len(trim(note.content)) > 0
                          THEN push(parsedNotes, note)
                          ELSE parsedNotes
                    /\ pc' = "loop"
               ELSE /\ pc' = CatchEntryError
                    /\ UNCHANGED parsedNotes
       ELSE UNCHANGED <<tried, parsedNotes, pc>>
    /\ idx' = idx + 1
    /\ UNCHANGED <<zipValid, archive, noteVars, fmtVars, svcVars>>

\* return parsedNotes
Return ==
    /\ pc = "loop"
    /\ idx > Len(archive)
    /\ pc' = "done"
    /\ UNCHANGED <<scanVars, noteVars, fmtVars, svcVars>>

Next == OpenArchive \/ VisitEntry \/ Return

Spec == Init /\ [][Next]_vars

-----------------------------------------------------------------------------
(* Properties of parseGoogleKeepTakeout *)

\* word occurs in path at offset i, whatever the case of the path's letters
OccursAt(path, word, i) ==
    /\ i >= 0
    /\ i + Len(word) <= Len(path)
    /\ \A j \in 1..Len(word) : LowerChar(path[i + j]) = word[j]

\* the three conditions of the note-candidate filter
QualifyingPath(path) ==
    /\ \E i \in 0..Len(path) : OccursAt(path, <<"k", "e", "e", "p">>, i)
    /\ OccursAt(path, <<".", "h", "t", "m", "l">>, Len(path) - 5)
    /\ ~\E i \in 0..Len(path) : OccursAt(path, <<"l", "a", "b", "e", "l">>, i)

\* C1: an entry the loop has visited was taken as a note candidate (its try
\* block was entered) exactly when its path contains "keep", ends with
\* ".html" and does not contain "label", case-insensitively; entries that
\* fail a condition contribute no note.
C1_Filter ==
    /\ \A i \in 1..(idx - 1) :
          i \in tried <=> QualifyingPath(archive[i].entryName)
    /\ tried \subseteq 1..(idx - 1)
    /\ Len(parsedNotes) <= Cardinality(tried)

\* C1 witness: three visited entries, of which the upper-case note path was
\* taken and the path under Labels and the .json path were not
C1_Witness ==
    /\ pc = "done" /\ Len(archive) = 3
    /\ archive[1].entryName =
          <<"K", "e", "e", "p", "/", "N", "o", "t", "e", "1", ".", "H", "T", "M", "L">>
    /\ archive[2].entryName =
          <<"K", "e", "e", "p", "/", "L", "a", "b", "e", "l", "s", "/", "x",
            ".", "H", "T", "M", "L">>
    /\ archive[3].entryName =
          <<"K", "e", "e", "p", "/", "N", "o", "t", "e", "1", ".", "j", "s", "o", "n">>
    /\ tried = {1}
    /\ Len(parsedNotes) = 1

\* C2: every note in parsedNotes has content that is not empty and has no
\* white space at either end.
C2_ContentTrimmed ==
    \A i \in 1..Len(parsedNotes) :
        LET c == parsedNotes[i].content IN
        /\ c # <<>>
        /\ ~IsWs(c[1]) /\ ~IsWs(c[Len(c)])
        /\ c = trim(c)

\* C2 witness: the list holds a note of each extraction path whose source
\* text had white space around it
C2_Witness ==
    /\ pc = "done" /\ Len(parsedNotes) = 2
    /\ archive[1].doc = PaddedDoc /\ archive[2].doc = MarkupDoc
    /\ parsedNotes[1].content = <<"H", "i">>
    /\ parsedNotes[2].content = sHelloWorld

\* the note an entry yields, if it is a candidate whose extraction gives one
Yield(entry) ==
    IF isKeepHtmlFile(entry.entryName) /\ entry.readable
    THEN LET note == ParseKeepHtmlNote(entry.doc).note IN
         IF note.k = "note" THEN <<note>> ELSE <<>>
    ELSE <<>>

\* the notes of a sequence of entries, entry by entry
RECURSIVE YieldAll(_)
YieldAll(entries) ==
    IF entries = <<>> THEN <<>>
    ELSE Yield(entries[1]) \o YieldAll(Tail(entries))

\* C3: the list is the in-order subsequence of the notes the candidate
\* entries yield, at most one per entry, after every iteration and on return;
\* without a qualifying entry it is empty.
C3_InOrderSubsequence ==
    /\ pc \in {"loop", "done"} =>
          parsedNotes = YieldAll(SubSeq(archive, 1, idx - 1))
    /\ pc = "done" => idx = Len(archive) + 1
    /\ (pc = "done" /\ \A i \in 1..Len(archive) : Yield(archive[i]) = <<>>)
          => parsedNotes = <<>>

\* C3 witness: two different notes came out in the order of their entries,
\* with an entry between them that yields none
C3_Witness ==
    /\ pc = "done" /\ Len(archive) = 3
    /\ archive[1].doc = MarkupDoc /\ archive[2].doc = EmptyDoc
    /\ archive[3].doc = GoodDoc /\ archive[3].readable
    /\ Len(parsedNotes) = 2
    /\ parsedNotes[1].content = sHelloWorld
    /\ parsedNotes[2].content = sHello

\* an entry whose reading throws
Failing(entry) == isKeepHtmlFile(entry.entryName) /\ ~entry.readable

KeepEntry(entry) == ~Failing(entry)

\* C4: in a valid archive the scan never throws, and what it returns is
\* what the scan of the archive without its failing entries yields.
C4_FailingEntrySkipped ==
    /\ zipValid => pc # "threw"
    /\ pc = "done" => parsedNotes = YieldAll(SelectSeq(archive, KeepEntry))

\* C4 witness: the middle entry failed and the notes before and after it
\* were returned
C4_Witness ==
    /\ pc = "done" /\ Len(archive) = 3
    /\ ~Failing(archive[1]) /\ Failing(archive[2]) /\ ~Failing(archive[3])
    /\ Len(parsedNotes) = 2

-----------------------------------------------------------------------------
(* formatNoteContent *)

\* .replace(/\r\n/g, '\n')
RECURSIVE ReplaceCrLf(_)
ReplaceCrLf(s) ==
    IF s = <<>> THEN <<>>
    ELSE IF startsWith(s, <<"\r", "\n">>)
         THEN <<"\n">> \o ReplaceCrLf(SubSeq(s, 3, Len(s)))
    ELSE <<s[1]>> \o ReplaceCrLf(Tail(s))

\* .replace(/\r/g, '\n')
ReplaceCr(s) == [i \in 1..Len(s) |-> IF s[i] = "\r" THEN "\n" ELSE s[i]]

\* length of the run of "\n" that s starts with
RECURSIVE NewlineRun(_)
NewlineRun(s) ==
    IF s = <<>> \/ s[1] # "\n" THEN 0 ELSE 1 + NewlineRun(Tail(s))

\* .replace(/\n{3,}/g, '\n\n'): the quantifier is greedy, so a whole run of
\* three or more is one match
RECURSIVE CollapseNewlines(_)
CollapseNewlines(s) ==
    IF s = <<>> THEN <<>>
    ELSE LET r == NewlineRun(s) IN
         IF r >= 3
         THEN <<"\n", "\n">> \o CollapseNewlines(SubSeq(s, r + 1, Len(s)))
         ELSE IF r >= 1
         THEN SubSeq(s, 1, r) \o CollapseNewlines(SubSeq(s, r + 1, Len(s)))
         ELSE <<s[1]>> \o CollapseNewlines(Tail(s))

\* a slip in the order of the replacements: runs are collapsed before the
\* lone carriage returns have become newlines
formatNoteContent_collapseFirst(s) ==
    trim(ReplaceCr(CollapseNewlines(ReplaceCrLf(s))))

formatNoteContent(s) ==
    trim(CollapseNewlines(ReplaceCr(ReplaceCrLf(s))))

\* the characters the strings given to formatNoteContent are made of
FmtChars == {"a", " ", "\n", "\r"}

InitFormat ==
    /\ content \in SeqUpTo(FmtChars, MaxLen)
    /\ prev = <<>>
    /\ calls = 0
    /\ pc = "idle"
    /\ zipValid = TRUE /\ archive = <<>> /\ idx = 1
    /\ parsedNotes = <<>> /\ tried = {}
    /\ html = <<>> /\ result = <<>>
    /\ NoImport

\* one call content = formatNoteContent(content) by a caller
Format ==
    /\ pc = "idle"
    /\ calls < 2
    /\ prev' = content
    /\ content' = formatNoteContent(content)
    /\ calls' = calls + 1
    /\ UNCHANGED <<pc, scanVars, noteVars, svcVars>>

NextFormat == Format

SpecFormat == InitFormat /\ [][NextFormat]_vars

\* C10 (first half): a string that already has only \n line endings, no run
\* of three or more newlines and no leading or trailing white space
OutputForm(s) ==
    /\ \A i \in 1..Len(s) : s[i] # "\r"
    /\ \A i \in 1..Len(s) - 2 :
          ~(s[i] = "\n" /\ s[i + 1] = "\n" /\ s[i + 2] = "\n")
    /\ s = <<>> \/ (~IsWs(s[1]) /\ ~IsWs(s[Len(s)]))

\* C10: formatNoteContent is idempotent: a second call returns what the
\* first call returned, and a string already in the output form is returned
\* unchanged by a call.
C10_Idempotent ==
    /\ calls = 2 => content = prev
    /\ (calls >= 1 /\ OutputForm(prev)) => content = prev

\* C10 witness: a call changed its input (line endings, a run of newlines)
\* and the second call has been made on its result
C10_Witness ==
    /\ calls = 2
    /\ prev = <<"a", "\n", "\n", "a">>
    /\ content = prev

-----------------------------------------------------------------------------
(* validators.ts *)

MaxUserIdLength == 255
MinFileSize == 1
MaxFileSize == 209715200

\* userIdSchema.safeParse(userId).success
validateUserId(userId) ==
    Len(userId) >= 1 /\ Len(userId) <= MaxUserIdLength

\* fileSchema.safeParse(file).success
validateUploadedFile(file) ==
    /\ Len(file.filepath) >= 1
    /\ endsWith(toLowerCase(file.originalFilename), <<".", "z", "i", "p">>)
    /\ file.size >= MinFileSize
    /\ file.size <= MaxFileSize

-----------------------------------------------------------------------------
(* google-keep.service.ts *)

MAX_NOTES_LIMIT == 5000
MAX_CONTENT_LENGTH == 65535
MaxTitleLength == 255

\* the string of n characters c
Rep(c, n) == [i \in 1..n |-> c]

\* s.substring(0, n)
substring0(s, n) == SubSeq(s, 1, IF Len(s) < n THEN Len(s) ELSE n)

sPlaceholderTitle ==
    <<"I", "m", "p", "o", "r", "t", "e", "d", " ",
      "K", "e", "e", "p", " ", "N", "o", "t", "e">>
sPlaceholderDomain ==
    <<"@", "p", "l", "a", "c", "e", "h", "o", "l", "d", "e", "r",
      ".", "l", "o", "c", "a", "l">>
sImportedUser ==
    <<"I", "m", "p", "o", "r", "t", "e", "d", " ", "U", "s", "e", "r">>

\* the row prisma.user.create is given
NewUser(userId) ==
    [id |-> userId, email |-> userId \o sPlaceholderDomain,
     name |-> sImportedUser]

\* prisma.user.findUnique({ where: { id } }) finds a row
UserExists(table, userId) == \E u \in table : u.id = userId

\* prisma.user.create rejects a row whose id (@id) or email (@unique) is
\* taken
CreateRejected(table, user) ==
    \E u \in table : u.id = user.id \/ u.email = user.email

\* What parseGoogleKeepTakeout returns for the entries of a valid archive:
\* the notes of the candidate entries that can be read and yield a note, in
\* the order of the entries
GivesNote(entry) ==
    /\ isKeepHtmlFile(entry.entryName)
    /\ entry.readable
    /\ LET note == ParseKeepHtmlNote(entry.doc).note IN
       note.k = "note" /\ Len(trim(note.content)) > 0

parseGoogleKeepTakeout(zipEntries) ==
    LET kept == SelectSeq(zipEntries, GivesNote) IN
    [i \in 1..Len(kept) |-> ParseKeepHtmlNote(kept[i].doc).note]

\* a slip: the limit itself is refused
TooManyNotes_atLimit(n) == n >= MAX_NOTES_LIMIT

\* parsedNotes.length > MAX_NOTES_LIMIT
TooManyNotes(n) == n > MAX_NOTES_LIMIT

\* a slip: an empty title is stored as it is
NoteToCreate_noPlaceholder(note, userId, now) ==
    [title |-> substring0(note.title, MaxTitleLength),
     content |-> substring0(note.content, MAX_CONTENT_LENGTH),
     userId |-> userId,
     createdAt |-> IF note.createdAt # <<>> THEN note.createdAt[1] ELSE now]

\* one element of notesToCreate
NoteToCreate(note, userId, now) ==
    [title |-> IF note.title # <<>>
               THEN substring0(note.title, MaxTitleLength)
               ELSE sPlaceholderTitle,
     content |-> substring0(note.content, MAX_CONTENT_LENGTH),
     userId |-> userId,
     createdAt |-> IF note.createdAt # <<>> THEN note.createdAt[1] ELSE now]

-----------------------------------------------------------------------------
(* keep-import.controller.ts: one request to importKeepNotes *)

\* ctx.request.files.takeout: present is FALSE when there is no such upload
Upload(present, filepath, originalFilename, size) ==
    [present |-> present, filepath |-> filepath,
     originalFilename |-> originalFilename, size |-> size]

\* A request: the X-User-ID header as ctx.get returns it ('' when the
\* header is missing), the upload, whether fsPromises.readFile succeeds and
\* whether the database answers
Request(userIdHeader, file, readable, dbUp) ==
    [userIdHeader |-> userIdHeader, file |-> file, readable |-> readable,
     dbUp |-> dbUp]

Response(status, imported) == [status |-> status, imported |-> imported]

sTmpPath == <<"/", "t", "m", "p", "/", "u", "p">>
sUser == <<"u", "1">>

UserIdHeaders ==
    {<<>>, sUser, Rep("u", MaxUserIdLength), Rep("u", MaxUserIdLength + 1)}

FileNames ==
    {<<"a", ".", "z", "i", "p">>, <<"A", ".", "Z", "I", "P">>,
     <<"a", ".", "t", "x", "t">>, <<"z", "i", "p">>}

FileSizes == {0, MinFileSize, MaxFileSize, MaxFileSize + 1}

NoUpload == Upload(FALSE, <<>>, <<>>, 0)
GoodUpload == Upload(TRUE, sTmpPath, <<"a", ".", "z", "i", "p">>, 1)

Uploads ==
    {NoUpload, Upload(TRUE, <<>>, <<"a", ".", "z", "i", "p">>, 1)}
    \cup {Upload(TRUE, sTmpPath, nm, sz) : nm \in FileNames, sz \in FileSizes}

\* the document of a note with the given name, text and dateCreated
NoteDoc(nm, tx, dc) ==
    BodyOnly(LdJson(JObj([NoFields EXCEPT !.name = nm, !.text = tx,
                                          !.dateCreated = dc])), <<"B">>)

\* notes with titles and contents around the two length limits
LimitDocs ==
    {NoteDoc(nm, Str(sHello), dc) :
        nm \in {Absent, Str(sT), Str(Rep("t", MaxTitleLength)),
                Str(Rep("t", MaxTitleLength + 1))},
        dc \in {Absent, Str(s2020)}}
    \cup {NoteDoc(Str(sT), Str(Rep("c", n)), Absent) :
            n \in {MAX_CONTENT_LENGTH, MAX_CONTENT_LENGTH + 1}}

NoteEntry(doc) == Entry(NotePath, TRUE, doc)

\* the bytes of an archive that holds the given entries, the whole run of
\* them the given number of times
Buffer(entries, times) == [entries |-> entries, times |-> times]

\* zip.getEntries() of such a buffer
getEntries(buffer) ==
    LET n == Len(buffer.entries) IN
    [i \in 1..(n * buffer.times) |-> buffer.entries[((i - 1) % n) + 1]]

\* the archives uploaded: without notes, with one note, with several, and
\* with as many notes as the limit allows and one more
UploadedArchives ==
    {Buffer(<<>>, 1), Buffer(<<Entry(NotePath, TRUE, EmptyDoc)>>, 1),
     Buffer(<<Entry(NotePath, FALSE, GoodDoc), NoteEntry(MarkupDoc),
              NoteEntry(GoodDoc)>>, 1)}
    \cup {Buffer(<<NoteEntry(d)>>, 1) : d \in LimitDocs}
    \cup {Buffer(<<NoteEntry(GoodDoc)>>, n) :
            n \in {MAX_NOTES_LIMIT, MAX_NOTES_LIMIT + 1}}

\* the users table before the request: empty, with the user of the
\* request, or with another user who has the placeholder email
UserTables ==
    {{}, {NewUser(sUser)},
     {[id |-> <<"u", "2">>, email |-> sUser \o sPlaceholderDomain,
       name |-> sImportedUser]}}

InitImport ==
    /\ \/ /\ req \in {Request(h, f, r, TRUE) :
                        h \in UserIdHeaders, f \in Uploads, r \in BOOLEAN}
          /\ zipValid = TRUE
          /\ fileBuffer = Buffer(<<NoteEntry(GoodDoc)>>, 1)
          /\ userTable = {}
       \/ /\ req \in {Request(sUser, GoodUpload, TRUE, d) : d \in BOOLEAN}
          /\ \/ zipValid = TRUE /\ fileBuffer \in UploadedArchives
             \/ zipValid = FALSE /\ fileBuffer = Buffer(<<>>, 1)
          /\ userTable \in UserTables
    \* the entries are read from the buffer when the archive is parsed
    /\ archive = <<>>
    /\ resp = <<>>
    /\ cleaned = <<>>
    \* koa-body has written the upload to its temporary file before the
    \* handler runs
    /\ disk = IF req.file.present /\ req.file.filepath # <<>>
              THEN {req.file.filepath} ELSE {}
    /\ noteTable = <<>>
    /\ clock \in {3000, 3001}
    /\ pc = "request"
    /\ parsedNotes = <<>>
    /\ idx = 1 /\ tried = {} /\ procs = <<>>
    /\ html = <<>> /\ result = <<>>
    /\ content = <<>> /\ prev = <<>> /\ calls = 0

\* cleanupFile(filepath): the call is recorded, the file unlinked if it
\* exists
CleanupFile(filepath) ==
    /\ cleaned' = Append(cleaned, filepath)
    /\ disk' = disk \ {filepath}

\* ctx.status = status; return
Respond(status, imported) ==
    /\ resp' = Response(status, imported)
    /\ pc' = "responded"

\* the handler up to the reading of the upload: the header, then the
\* presence of the upload, then its validation
ValidateRequest ==
    /\ pc = "request"
    /\ IF ~validateUserId(req.userIdHeader)
       THEN Respond(401, 0) /\ UNCHANGED <<cleaned, disk>>
       ELSE IF ~req.file.present \/ req.file.filepath = <<>>
       THEN Respond(400, 0) /\ UNCHANGED <<cleaned, disk>>
       ELSE IF ~validateUploadedFile(req.file)
       THEN Respond(400, 0) /\ CleanupFile(req.file.filepath)
       ELSE pc' = "read" /\ UNCHANGED <<resp, cleaned, disk>>
    /\ UNCHANGED <<req, fileBuffer, scanVars, noteVars, fmtVars, dbVars,
                   procs>>

\* fsPromises.readFile in its try block, and the cleanupFile call that
\* follows either way
ReadUpload ==
    /\ pc = "read"
    /\ CleanupFile(req.file.filepath)
    /\ IF req.readable
       THEN pc' = "user" /\ UNCHANGED resp
       ELSE Respond(500, 0)
    /\ UNCHANGED <<req, fileBuffer, scanVars, noteVars, fmtVars, dbVars,
                   procs>>

\* parseAndSaveNotes, first part: findUnique and, without a row, create.
\* A rejected query is an exception, which the controller's catch turns
\* into a 400.
EnsureUser ==
    /\ pc = "user"
    /\ IF ~req.dbUp
       THEN Respond(400, 0) /\ UNCHANGED userTable
       ELSE IF UserExists(userTable, req.userIdHeader)
       THEN pc' = "parse" /\ UNCHANGED <<resp, userTable>>
       ELSE IF CreateRejected(userTable, NewUser(req.userIdHeader))
       THEN Respond(400, 0) /\ UNCHANGED userTable
       ELSE /\ userTable' = userTable \cup {NewUser(req.userIdHeader)}
            /\ pc' = "parse"
            /\ UNCHANGED resp
    /\ UNCHANGED <<req, cleaned, disk, fileBuffer, noteTable, clock,
                   scanVars, noteVars, fmtVars, procs>>

\* parseAndSaveNotes, second part: the archive is parsed and the number of
\* notes checked; new AdmZip throws on a buffer that is no archive
ParseUpload ==
    /\ pc = "parse"
    /\ IF ~zipValid
       THEN Respond(400, 0) /\ UNCHANGED parsedNotes
       ELSE LET found == parseGoogleKeepTakeout(getEntries(fileBuffer)) IN
            /\ parsedNotes' = found
            /\ IF Len(found) = 0 \/ TooManyNotes(Len(found))
               THEN Respond(400, 0)
               ELSE pc' = "save" /\ UNCHANGED resp
    /\ UNCHANGED <<zipValid, archive, idx, tried, noteVars, fmtVars,
                   req, cleaned, disk, fileBuffer, dbVars, procs>>

\* parseAndSaveNotes, last part, and the 200 of the controller:
\* notesToCreate is built and handed to prisma.note.createMany
SaveNotes ==
    /\ pc = "save"
    /\ LET notesToCreate ==
              [i \in 1..Len(parsedNotes) |->
                  NoteToCreate(parsedNotes[i], req.userIdHeader, clock)]
       IN  /\ noteTable' = noteTable \o notesToCreate
           /\ Respond(200, Len(notesToCreate))
    /\ UNCHANGED <<req, cleaned, disk, fileBuffer, userTable, clock,
                   scanVars, noteVars, fmtVars, procs>>

NextImport ==
    ValidateRequest \/ ReadUpload \/ EnsureUser \/ ParseUpload \/ SaveNotes

SpecImport == InitImport /\ [][NextImport]_vars

-----------------------------------------------------------------------------
(* Properties of one request *)

Responded == pc = "responded"

\* the identifier is missing, empty or longer than 255 characters
BadIdentifier ==
    req.userIdHeader = <<>> \/ Len(req.userIdHeader) > 255

\* the takeout file is missing, is not named *.zip or has a size outside
\* [1 byte, 200 MiB]
BadFile ==
    \/ ~req.file.present
    \/ req.file.filepath = <<>>
    \/ ~OccursAt(req.file.originalFilename, <<".", "z", "i", "p">>,
                 Len(req.file.originalFilename) - 4)
    \/ req.file.size < 1
    \/ req.file.size > 200 * 1024 * 1024

\* the number of notes the uploaded archive yields (none when the upload is
\* no archive)
Extracted ==
    IF zipValid
    THEN LET entries == getEntries(fileBuffer) IN
         Cardinality({i \in 1..Len(entries) : GivesNote(entries[i])})
    ELSE 0

\* a storage query of the user step was rejected: the database does not
\* answer, or the user could not be created
StorageRejected ==
    ~req.dbUp \/ ~UserExists(userTable, req.userIdHeader)

UploadOnDisk == req.file.present /\ req.file.filepath # <<>>

\* C12: when the handler has returned, whatever the status, cleanupFile has
\* been called with the path of the temporary file of the takeout upload.
C12_AlwaysCleansUp ==
    (Responded /\ UploadOnDisk) =>
        \E i \in 1..Len(cleaned) : cleaned[i] = req.file.filepath

\* r is the first n characters of s (all of s when s is shorter)
IsPrefixOfLength(r, s, n) ==
    /\ Len(r) = (IF Len(s) < n THEN Len(s) ELSE n)
    /\ \A i \in 1..Len(r) : r[i] = s[i]

\* C13: the rows handed to storage correspond one by one to the parsed
\* notes: title capped at 255 characters or the placeholder for an empty
\* title, non-empty content capped at 65,535 characters, the request's user
\* as owner, the parsed timestamp or else the current time; the parsed
\* notes stay as the parser returned them.
C13_RecordShape ==
    (Responded /\ resp.status = 200) =>
        /\ Len(noteTable) = Len(parsedNotes)
        /\ parsedNotes = parseGoogleKeepTakeout(getEntries(fileBuffer))
        /\ \A i \in 1..Len(noteTable) :
              LET row == noteTable[i]
                  note == parsedNotes[i]
              IN  /\ Len(row.title) <= 255
                  /\ IF note.title = <<>>
                     THEN row.title = sPlaceholderTitle
                     ELSE IsPrefixOfLength(row.title, note.title, 255)
                  /\ row.content # <<>>
                  /\ IsPrefixOfLength(row.content, note.content, 65535)
                  /\ row.userId = req.userIdHeader
                  /\ row.createdAt = (IF note.createdAt = <<>> THEN clock
                                      ELSE note.createdAt[1])

\* C13 witness: a note without title and without timestamp was stored under
\* the placeholder title with the current time
C13_Witness ==
    /\ Responded /\ resp.status = 200
    /\ Len(noteTable) = 1
    /\ parsedNotes[1].title = <<>> /\ parsedNotes[1].createdAt = <<>>
    /\ noteTable[1].title = sPlaceholderTitle
    /\ noteTable[1].createdAt = clock

-----------------------------------------------------------------------------
(* Concurrent parseAndSaveNotes calls *)

\* number of parseAndSaveNotes calls in flight
NumCalls == 2

\* a call: its position, its userId argument and its userExists local
Call(at, userId, userExists) ==
    [at |-> at, userId |-> userId, userExists |-> userExists]

RaceUserIds == {sUser, <<"u", "2">>}

InitRace ==
    /\ procs \in [1..NumCalls -> {Call("find", u, FALSE) : u \in RaceUserIds}]
    /\ userTable \in {{}, {NewUser(sUser)}}
    /\ noteTable = <<>>
    /\ clock \in {3000, 3001}
    /\ zipValid = TRUE
    /\ archive = <<>>
    /\ pc = "service"
    /\ req = <<>> /\ resp = <<>> /\ cleaned = <<>> /\ disk = {}
    /\ fileBuffer = Buffer(<<NoteEntry(GoodDoc)>>, 1)
    /\ parsedNotes = <<>> /\ idx = 1 /\ tried = {}
    /\ html = <<>> /\ result = <<>>
    /\ content = <<>> /\ prev = <<>> /\ calls = 0

\* await prisma.user.findUnique(...): the answer is what the table holds
\* when the query runs
FindUser(p) ==
    /\ procs[p].at = "find"
    /\ LET found == UserExists(userTable, procs[p].userId) IN
       procs' = [procs EXCEPT ![p].userExists = found,
                              ![p].at = IF found THEN "parse" ELSE "create"]
    /\ UNCHANGED <<pc, scanVars, noteVars, fmtVars, httpVars, dbVars>>

\* await prisma.user.create(...): a row whose id or email is taken is
\* rejected, and the call ends with that exception
CreateUser(p) ==
    /\ procs[p].at = "create"
    /\ IF CreateRejected(userTable, NewUser(procs[p].userId))
       THEN /\ procs' = [procs EXCEPT ![p].at = "failed"]
            /\ UNCHANGED userTable
       ELSE /\ userTable' = userTable \cup {NewUser(procs[p].userId)}
            /\ procs' = [procs EXCEPT ![p].at = "parse"]
    /\ UNCHANGED <<pc, scanVars, noteVars, fmtVars, httpVars, noteTable,
                   clock>>

\* the rest of the call: the archive is parsed and its notes are inserted
ImportNotes(p) ==
    /\ procs[p].at = "parse"
    /\ LET found == parseGoogleKeepTakeout(getEntries(fileBuffer))
           notesToCreate ==
              [i \in 1..Len(found) |->
                  NoteToCreate(found[i], procs[p].userId, clock)]
       IN  noteTable' = noteTable \o notesToCreate
    /\ procs' = [procs EXCEPT ![p].at = "done"]
    /\ UNCHANGED <<pc, scanVars, noteVars, fmtVars, httpVars, userTable,
                   clock>>

NextRace ==
    \E p \in 1..NumCalls : FindUser(p) \/ CreateUser(p) \/ ImportNotes(p)

SpecRace == InitRace /\ [][NextRace]_vars

\* C14: whatever the interleaving of the calls, no call fails in the user
\* step, and each identifier has at most one user row, with the placeholder
\* email.
C14_NoFailedImport ==
    pc = "service" =>
        /\ \A p \in 1..NumCalls : procs[p].at # "failed"
        /\ \A u, v \in userTable : u.id = v.id => u = v
        /\ \A u \in userTable : u.email = u.id \o sPlaceholderDomain

====
